---- MODULE Spec2Model ----
(***************************************************************************)
(* Model of storage/miner.go: the Miner lifecycle (NewMiner, Run, Stop),   *)
(* the preflight checks, and the fillData loop driven by the data ticker.  *)
(*                                                                         *)
(* One control thread issues Run and Stop calls one after another; every   *)
(* `go` statement of Run adds a goroutine that is scheduled independently. *)
(* Calls into the chain API, the wallet and the sector builder return      *)
(* values chosen by the environment.                                       *)
(***************************************************************************)
EXTENDS Integers, Sequences, FiniteSets, TLC

\* ---- bounds of the model ------------------------------------------------
MaxStarts == 2      \* Run calls issued by the control thread
MaxStops == 2       \* Stop calls issued by the control thread
MaxTicks == 2       \* ticks delivered by all tickers together
MaxFree == 2        \* largest value GetFreeWorkers reports

\* ---- values ---------------------------------------------------------------
Addrs == {"a1", "a2"}                  \* worker addresses the chain may report
Miners == {"t01000"}                   \* the miner actor given to NewMiner
Undef == "undef"                       \* address.Undef, the zero Address
NoTicker == 0                          \* m.dataTiker == nil

NoResult == <<"none">>
Nil == <<"nil">>
ErrChain == <<"StateMinerWorker failed">>
ErrWallet == <<"WalletHas failed">>
ErrNoKey == <<"key for worker not found in local wallet">>
ErrCtx == <<"context done">>
Wrap(msg, err) == <<msg>> \o err       \* xerrors.Errorf("msg: %w", err)

\* ---- values of the SectorBuilderEpp adapter -------------------------------
RandWidth == 32                        \* var randbuf [32]byte
MaxRandLen == 33                       \* longest randomness a caller passes
Strides == {1, 7}
Rand(n, k) == [i \in 1..n |-> (k * i + 1) % 256]
Rands == {Rand(n, k) : n \in 0..MaxRandLen, k \in Strides}
Ssis == {<<>>, <<"s1">>}               \* sorted public sector infos
Cands == {<<>>, <<"c1">>, <<"c1", "c2">>}   \* candidate sequences
Proofs == {<<>>, <<7, 9>>}             \* proof bytes of the sector builder
ErrSb == <<"sector builder failed">>
SentinelProof == <<118, 97, 108, 105, 100, 32, 112, 114, 111, 111, 102>>   \* []byte("valid proof")
Faults == <<>>                         \* var faults []uint64
ZeroBuf == [i \in 1..RandWidth |-> 0]
NoAnswer == [val |-> <<>>, err |-> Nil]
EppIdle(flag) == [insecure |-> flag, op |-> "none", arg |-> <<>>, sb |-> <<>>,
                  ans |-> NoAnswer, ret |-> NoAnswer]

VARIABLES
    maddr,        \* m.maddr
    worker,       \* m.worker
    sealing,      \* m.sealing: FALSE is nil
    dataTiker,    \* m.dataTiker: index into tickers, NoTicker is nil
    tickers,      \* every time.Ticker created: [live, buf], buf is len(C), cap(C) = 1
    stop,         \* m.stop: "open" or "closed"
    stopped,      \* m.stopped: "open" or "closed"
    fill,         \* fillData goroutines: [pc, tk]
    fps,          \* fpostScheduler.run goroutines started by go fps.run(ctx)
    wallet,       \* addresses the local wallet holds a key for
    pc,           \* position of the control thread
    panicked,     \* an unrecovered panic ended the process
    stopCtx,      \* the context given to the current Stop: [kind, done]
    result,       \* what the last call of the control thread returned
    local,        \* worker, has and err of runPreflightChecks
    calls,        \* how often Run, Stop, a tick and PledgeSector happened
    made,         \* boundary calls made by the current (or last) Run or Stop
    sealingCtx,   \* the context that call handed to m.sealing.Stop
    atCall,       \* m.worker and the goroutines started, when that call began
    epp           \* the last call of the SectorBuilderEpp adapter, and the build flag

vars == <<maddr, worker, sealing, dataTiker, tickers, stop, stopped, fill, fps,
          wallet, pc, panicked, stopCtx, result, local,
          calls, made, sealingCtx, atCall, epp>>

ctrl == <<maddr, worker, sealing, dataTiker, tickers, stop, stopped>>
goroutines == <<fill, fps>>
outside == <<wallet, epp>>
thread == <<pc, stopCtx, result, local, made, sealingCtx, atCall>>

CallNames == {"Run", "Stop", "tick", "PledgeSector"}
Boundary == {"StateMinerWorker", "WalletHas", "sealingStop"}

Bump(name) == [calls EXCEPT ![name] = @ + 1]
Made(name) == [made EXCEPT ![name] = @ + 1]
NoneMade == [n \in Boundary |-> 0]

NoSignal == [free |-> -1, busy |-> FALSE]   \* no answer of the sector builder held
NoCtx == [kind |-> "none", done |-> FALSE]
NoLocals == [worker |-> Undef, has |-> FALSE, err |-> Nil]

\* The lifecycle state, as the fields of the Miner show it
NodeState ==
    IF stopped = "closed" THEN "Stopped"
    ELSE IF stop = "closed" THEN "Stopping"
    ELSE IF dataTiker # NoTicker THEN "Running"
    ELSE "Created"

Loops == Len(fps) + Len(fill)
LiveTimers == Cardinality({i \in 1..Len(tickers) : tickers[i].live})

Snapshot(op) == [op |-> op, worker |-> worker, loops |-> Loops,
                 timers |-> LiveTimers, state |-> NodeState]

\* ---- NewMiner -------------------------------------------------------------
MinerInit ==
    /\ maddr \in Miners
    /\ worker = Undef
    /\ sealing = FALSE
    /\ dataTiker = NoTicker
    /\ tickers = <<>>
    /\ stop = "open"
    /\ stopped = "open"
    /\ fill = <<>>
    /\ fps = <<>>
    /\ wallet \in SUBSET Addrs
    /\ pc = "idle"
    /\ panicked = FALSE
    /\ stopCtx = NoCtx
    /\ result = NoResult
    /\ local = NoLocals
    /\ calls = [n \in CallNames |-> 0]
    /\ made = NoneMade
    /\ sealingCtx = "none"
    /\ atCall = [op |-> "NewMiner", worker |-> Undef, loops |-> 0, timers |-> 0,
                 state |-> "Created"]

Init ==
    /\ MinerInit
    /\ epp = EppIdle(FALSE)

Alive == ~panicked

\* ---- Run ------------------------------------------------------------------
RunCall ==
    /\ Alive /\ pc = "idle"
    /\ calls["Run"] < MaxStarts
    /\ pc' = "preflightWorker"
    /\ calls' = Bump("Run")
    /\ atCall' = Snapshot("Run")
    /\ made' = NoneMade
    /\ sealingCtx' = "none"
    /\ local' = NoLocals
    /\ stopCtx' = NoCtx
    /\ result' = NoResult
    /\ UNCHANGED <<ctrl, goroutines, outside, panicked>>

\* m.worker after StateMinerWorker answered `res`: assigned only when err == nil
WorkerAfterQuery_AssignedFirst(old, res) == IF res = "error" THEN Undef ELSE res
WorkerAfterQuery(old, res) == IF res = "error" THEN old ELSE res

\* if !has { return errors.New(...) }; otherwise runPreflightChecks returns nil
KeyCheck_Skipped(has) == Nil
KeyCheck(has) == IF ~has THEN ErrNoKey ELSE Nil

\* Run goes on to start the loops only when runPreflightChecks returned nil
AfterPreflight_ErrorIgnored(err) == "startLoops"
AfterPreflight(err) == IF err = Nil THEN "startLoops" ELSE "idle"

\* What Run returns when runPreflightChecks returned `err`
PreflightFailed(err) == Wrap("miner preflight checks failed", err)

\* runPreflightChecks, up to and including m.worker = worker
PreflightWorker ==
    /\ Alive /\ pc = "preflightWorker"
    /\ made' = Made("StateMinerWorker")
    /\ \E res \in Addrs \cup {"error"} :
         /\ worker' = WorkerAfterQuery(worker, res)
         /\ IF res = "error"
              THEN /\ local' = [local EXCEPT !.err = ErrChain]
                   /\ pc' = AfterPreflight(ErrChain)
                   /\ result' = IF pc' = "idle" THEN PreflightFailed(ErrChain)
                                                     ELSE result
              ELSE /\ local' = [local EXCEPT !.worker = res]
                   /\ pc' = "preflightWallet"
                   /\ UNCHANGED result
    /\ UNCHANGED <<maddr, sealing, dataTiker, tickers, stop, stopped, goroutines,
                   outside, panicked, stopCtx, calls, sealingCtx, atCall>>

\* runPreflightChecks, from WalletHas to its return
PreflightWallet ==
    /\ Alive /\ pc = "preflightWallet"
    /\ made' = Made("WalletHas")
    /\ \E failed \in BOOLEAN :
         LET has == ~failed /\ local.worker \in wallet
             err == IF failed
                      THEN Wrap("failed to check wallet for worker key", ErrWallet)
                      ELSE KeyCheck(has)
         IN  /\ local' = [local EXCEPT !.has = has,
                                       !.err = IF failed THEN ErrWallet ELSE Nil]
             /\ pc' = AfterPreflight(err)
             /\ result' = IF pc' = "idle" THEN PreflightFailed(err)
                                               ELSE result
    /\ UNCHANGED <<ctrl, goroutines, outside, panicked, stopCtx,
                   calls, sealingCtx, atCall>>

\* Run after the preflight: go fps.run, sealing.New, time.NewTicker, go m.fillData
RunStartLoops ==
    /\ Alive /\ pc = "startLoops"
    /\ fps' = Append(fps, "running")
    /\ sealing' = TRUE
    /\ tickers' = Append(tickers, [live |-> TRUE, buf |-> 0])
    /\ dataTiker' = Len(tickers) + 1
    /\ fill' = Append(fill, [pc |-> "start", tk |-> NoTicker, sig |-> NoSignal])
    /\ result' = Nil
    /\ pc' = "idle"
    /\ UNCHANGED <<maddr, worker, stop, stopped, outside, panicked, stopCtx,
                   local, calls, made, sealingCtx, atCall>>

\* ---- the ticker -----------------------------------------------------------
\* A live ticker sends on its channel; a tick that finds the buffer full is dropped.
TickFire(i) ==
    /\ Alive
    /\ calls["tick"] < MaxTicks
    /\ tickers[i].live /\ tickers[i].buf = 0
    /\ tickers' = [tickers EXCEPT ![i].buf = 1]
    /\ calls' = Bump("tick")
    /\ UNCHANGED <<maddr, worker, sealing, dataTiker, stop, stopped, goroutines,
                   outside, panicked, thread>>

\* ---- fillData -------------------------------------------------------------
\* The goroutine starts and evaluates the range expression m.dataTiker.C once.
FillStart(g) ==
    /\ Alive /\ fill[g].pc = "start"
    /\ fill' = [fill EXCEPT ![g] = [pc |-> "wait", tk |-> dataTiker, sig |-> NoSignal]]
    /\ UNCHANGED <<ctrl, fps, outside, panicked, thread, calls>>

\* for range m.dataTiker.C: receive one tick
FillRecv(g) ==
    /\ Alive /\ fill[g].pc = "wait"
    /\ tickers[fill[g].tk].buf = 1
    /\ tickers' = [tickers EXCEPT ![fill[g].tk].buf = 0]
    /\ fill' = [fill EXCEPT ![g].pc = "check"]
    /\ UNCHANGED <<maddr, worker, sealing, dataTiker, stop, stopped, fps, outside,
                   panicked, thread, calls>>

\* GetFreeWorkers() > 0 && !Busy()
ShouldPledge_BusyIgnored(free, busy) == free > 0
ShouldPledge(free, busy) == free > 0 /\ ~busy

\* m.sb.GetFreeWorkers() and m.sb.Busy() answer: the sector builder's state is
\* its own, so any answer is possible
FillCheck(g) ==
    /\ Alive /\ fill[g].pc = "check"
    /\ \E free \in 0..MaxFree, busy \in BOOLEAN :
         fill' = [fill EXCEPT ![g].pc = "decide",
                              ![g].sig = [free |-> free, busy |-> busy]]
    /\ UNCHANGED <<ctrl, fps, outside, panicked, thread, calls>>

\* if m.sb.GetFreeWorkers() > 0 && !m.sb.Busy() { ... }
FillDecide(g) ==
    /\ Alive /\ fill[g].pc = "decide"
    /\ fill' = [fill EXCEPT ![g].pc = IF ShouldPledge(fill[g].sig.free, fill[g].sig.busy)
                                        THEN "pledge" ELSE "wait",
                            ![g].sig = NoSignal]
    /\ UNCHANGED <<ctrl, fps, outside, panicked, thread, calls>>

\* m.PledgeSector()
FillPledge(g) ==
    /\ Alive /\ fill[g].pc = "pledge"
    /\ calls' = Bump("PledgeSector")
    /\ fill' = [fill EXCEPT ![g].pc = "wait"]
    /\ UNCHANGED <<ctrl, fps, outside, panicked, thread>>

\* ---- Stop -----------------------------------------------------------------
\* Stop is entered: defer m.sealing.Stop(ctx) is registered
StopCall ==
    /\ Alive /\ pc = "idle"
    /\ calls["Stop"] < MaxStops
    /\ \E kind \in {"background", "cancellable", "cancelled"} :
         stopCtx' = [kind |-> kind, done |-> (kind = "cancelled")]
    /\ calls' = Bump("Stop")
    /\ atCall' = Snapshot("Stop")
    /\ made' = NoneMade
    /\ sealingCtx' = "none"
    /\ local' = NoLocals
    /\ result' = NoResult
    /\ pc' = "stopTicker"
    /\ UNCHANGED <<ctrl, goroutines, outside, panicked>>

\* The deferred m.sealing.Stop(ctx) runs when Stop returns or panics
DeferredStop_Dropped == UNCHANGED <<made, sealingCtx>>
DeferredStop ==
    /\ made' = Made("sealingStop")
    /\ sealingCtx' = stopCtx.kind

\* t.Stop() on ticker i: no more ticks are sent; the channel is not closed
StopTimer_Forgotten(ts, i) == ts
StopTimer(ts, i) == [ts EXCEPT ![i].live = FALSE]

\* m.dataTiker.Stop(): a nil ticker is dereferenced, the call panics and the
\* deferred m.sealing.Stop(ctx) runs while the panic unwinds
StopTicker ==
    /\ Alive /\ pc = "stopTicker"
    /\ IF dataTiker = NoTicker
         THEN /\ panicked' = TRUE
              /\ DeferredStop
              /\ UNCHANGED <<tickers, pc>>
         ELSE /\ tickers' = StopTimer(tickers, dataTiker)
              /\ pc' = "stopClose"
              /\ UNCHANGED <<panicked, made, sealingCtx>>
    /\ UNCHANGED <<maddr, worker, sealing, dataTiker, stop, stopped, goroutines,
                   outside, stopCtx, result, local, calls, atCall>>

\* close(m.stop): closing a closed channel panics
StopClose ==
    /\ Alive /\ pc = "stopClose"
    /\ IF stop = "closed"
         THEN /\ panicked' = TRUE
              /\ DeferredStop
              /\ UNCHANGED <<stop, pc>>
         ELSE /\ stop' = "closed"
              /\ pc' = "stopSelect"
              /\ UNCHANGED <<panicked, made, sealingCtx>>
    /\ UNCHANGED <<maddr, worker, sealing, dataTiker, tickers, stopped, goroutines,
                   outside, stopCtx, result, local, calls, atCall>>

\* The value Stop returns when its select takes the case `which`
SelectResult_AlwaysNil(which) == Nil
SelectResult(which) == IF which = "stopped" THEN Nil ELSE ErrCtx

\* select { case <-m.stopped: ...; case <-ctx.Done(): ... }, then the deferred call
StopSelect ==
    /\ Alive /\ pc = "stopSelect"
    /\ \E which \in {"stopped", "ctx"} :
         /\ which = "stopped" => stopped = "closed"
         /\ which = "ctx" => stopCtx.done
         /\ result' = SelectResult(which)
    /\ DeferredStop
    /\ pc' = "idle"
    /\ UNCHANGED <<ctrl, goroutines, outside, panicked, stopCtx,
                   local, calls, atCall>>

\* ---- the environment ------------------------------------------------------
\* The caller of Stop cancels its context, or its deadline passes
CancelStopCtx ==
    /\ Alive /\ pc \in {"stopTicker", "stopClose", "stopSelect"}
    /\ stopCtx.kind = "cancellable" /\ ~stopCtx.done
    /\ stopCtx' = [stopCtx EXCEPT !.done = TRUE]
    /\ UNCHANGED <<ctrl, goroutines, outside, pc, panicked, result, local, calls,
                   made, sealingCtx, atCall>>

\* ---- SectorBuilderEpp -----------------------------------------------------
\* copy(dst, src): min(len(dst), len(src)) elements are copied, dst keeps its length
Copy_Whole(dst, src) ==
    [i \in 1..(IF Len(src) > Len(dst) THEN Len(src) ELSE Len(dst)) |->
        IF i <= Len(src) THEN src[i] ELSE dst[i]]
Copy(dst, src) ==
    [i \in 1..Len(dst) |-> IF i <= Len(src) THEN src[i] ELSE dst[i]]

\* What GenerateCandidates returns when the sector builder answered `ans`
GenResult_Partial(ans) == ans
GenResult(ans) ==
    IF ans.err # Nil THEN [val |-> <<>>, err |-> ans.err]
                     ELSE [val |-> ans.val, err |-> Nil]

\* GenerateCandidates(ctx, ssi, rand)
GenerateCandidates ==
    /\ epp.op = "none"
    /\ \E ssi \in Ssis, rand \in Rands, cds \in Cands, err \in {Nil, ErrSb} :
        LET randbuf == Copy(ZeroBuf, rand)
            ans == [val |-> cds, err |-> err]
        IN  /\ epp' = [epp EXCEPT
                         !.op = "GenerateCandidates",
                         !.arg = [ssi |-> ssi, rand |-> rand, winners |-> <<>>],
                         !.sb = <<[op |-> "GenerateEPostCandidates", ssi |-> ssi,
                                   rand |-> randbuf, faults |-> Faults]>>,
                         !.ans = ans,
                         !.ret = GenResult(ans)]
            /\ UNCHANGED <<ctrl, goroutines, wallet, panicked, thread, calls>>

\* The calls ComputeProof makes to the sector builder
ProofCalls_FlagIgnored(insecure, ssi, rand, winners) ==
    <<[op |-> "ComputeElectionPoSt", ssi |-> ssi, rand |-> rand, winners |-> winners]>>
ProofCalls(insecure, ssi, rand, winners) ==
    IF insecure
      THEN <<>>
      ELSE <<[op |-> "ComputeElectionPoSt", ssi |-> ssi, rand |-> rand,
              winners |-> winners]>>

\* What ComputeProof returns when the sector builder answered `ans`
ProofResult_KeepsBytes(ans) == ans
ProofResult(ans) ==
    IF ans.err # Nil THEN [val |-> <<>>, err |-> ans.err]
                     ELSE [val |-> ans.val, err |-> Nil]

\* ComputeProof(ctx, ssi, rand, winners)
ComputeProof ==
    /\ epp.op = "none"
    /\ \E ssi \in Ssis, rand \in Rands, winners \in Cands, proof \in Proofs,
         err \in {Nil, ErrSb} :
        LET sbCalls == ProofCalls(epp.insecure, ssi, rand, winners)
            ans == IF sbCalls = <<>> THEN NoAnswer ELSE [val |-> proof, err |-> err]
        IN  /\ epp' = [epp EXCEPT
                         !.op = "ComputeProof",
                         !.arg = [ssi |-> ssi, rand |-> rand, winners |-> winners],
                         !.sb = sbCalls,
                         !.ans = ans,
                         !.ret = IF epp.insecure
                                   THEN [val |-> SentinelProof, err |-> Nil]
                                   ELSE ProofResult(ans)]
            /\ UNCHANGED <<ctrl, goroutines, wallet, panicked, thread, calls>>

\* The caller (the election scheduler, one call at a time) takes the result
EppDone ==
    /\ epp.op # "none"
    /\ epp' = EppIdle(epp.insecure)
    /\ UNCHANGED <<ctrl, goroutines, wallet, panicked, thread, calls>>

\* ---- specifications -------------------------------------------------------
Control ==
    \/ RunCall \/ PreflightWorker \/ PreflightWallet \/ RunStartLoops
    \/ StopCall \/ StopTicker \/ StopClose \/ StopSelect

Ticker == \E i \in 1..Len(tickers) : TickFire(i)

FillData ==
    \E g \in 1..Len(fill) :
        FillStart(g) \/ FillRecv(g) \/ FillCheck(g) \/ FillDecide(g) \/ FillPledge(g)

Next == Control \/ Ticker \/ FillData \/ CancelStopCtx

Spec == Init /\ [][Next]_vars

\* Every call in progress and every goroutine keeps being scheduled; the callers
\* of Run and Stop, the cancellation of contexts and the ticker may act or not.
Fairness ==
    /\ WF_vars(PreflightWorker) /\ WF_vars(PreflightWallet) /\ WF_vars(RunStartLoops)
    /\ WF_vars(StopTicker) /\ WF_vars(StopClose) /\ WF_vars(StopSelect)
    /\ WF_vars(FillData)

FairSpec == Spec /\ Fairness

\* The adapter alone: it holds only the sector builder, so its calls are checked
\* on a Miner that stays as NewMiner made it.
EppInit ==
    /\ MinerInit
    /\ wallet = {}
    /\ \E flag \in BOOLEAN : epp = EppIdle(flag)

EppNext == GenerateCandidates \/ ComputeProof \/ EppDone

EppSpec == EppInit /\ [][EppNext]_vars

\* ---- properties -----------------------------------------------------------
InvalidState == <<"InvalidState">>
Returned(op) == pc = "idle" /\ atCall.op = op
FillExited(g) == fill[g].pc = "done"

\* C1: after a successful Run, a first Stop whose context is never done
\* eventually returns nil with the node Stopped.
C1_StopEventuallySucceeds ==
    [](  (pc = "stopTicker" /\ calls["Stop"] = 1 /\ Len(fps) > 0
            /\ stopCtx.kind = "background")
      => <>(Returned("Stop") /\ result = Nil /\ NodeState = "Stopped"))

\* C2: a Stop on a Miner on which no Run succeeded returns InvalidState; it
\* does not panic and does not return anything else.
C2_StopBeforeStartInvalidState ==
    (calls["Stop"] > 0 /\ Len(fps) = 0)
      => /\ ~panicked
         /\ Returned("Stop") => result = InvalidState

\* C3: a second Stop returns InvalidState; it does not panic and does not
\* return anything else.
C3_SecondStopInvalidState ==
    calls["Stop"] >= 2
      => /\ ~panicked
         /\ Returned("Stop") => result = InvalidState

\* C4: a Run on a Miner on which a Run already succeeded returns InvalidState,
\* and there is never more than one fps loop, one fillData loop, one live ticker.
C4_SecondStartRejected ==
    /\ Len(fps) <= 1 /\ Len(fill) <= 1 /\ LiveTimers <= 1
    /\ (Returned("Run") /\ atCall.loops > 0) => result = InvalidState

\* C5: once Stop has been called and Stopping has begun (the ticker is stopped
\* and m.stop is closed), no step calls PledgeSector.
C5_NoPledgeAfterStop ==
    [][(calls["Stop"] > 0 /\ NodeState = "Stopping")
         => calls'["PledgeSector"] = calls["PledgeSector"]]_vars

C7_NoKeyNoStart ==
    (Returned("Run") /\ made["WalletHas"] = 1 /\ local.err = Nil
        /\ worker \notin wallet)
      => /\ result = PreflightFailed(ErrNoKey)
         /\ Loops = atCall.loops
         /\ LiveTimers = atCall.timers
         /\ NodeState = atCall.state
         /\ (atCall.loops = 0 => NodeState = "Created" /\ Len(tickers) = 0)

C7_Witness ==
    /\ Returned("Run") /\ made["WalletHas"] = 1 /\ local.err = Nil
    /\ worker \notin wallet /\ worker \in Addrs
    /\ atCall.state = "Created" /\ NodeState = "Created" /\ Loops = 0

\* C8: when StateMinerWorker fails, Run returns that error wrapped, after one
\* query and no WalletHas call, with no loop started and m.worker as it was.
C8_ChainErrorNoStart ==
    (Returned("Run") /\ local.err = ErrChain)
      => /\ result = PreflightFailed(ErrChain)
         /\ made["StateMinerWorker"] = 1
         /\ made["WalletHas"] = 0
         /\ Loops = atCall.loops
         /\ LiveTimers = atCall.timers
         /\ worker = atCall.worker

C8_Witness ==
    /\ Returned("Run") /\ local.err = ErrChain
    /\ atCall.worker \in Addrs /\ worker = atCall.worker

\* C9: Stop returns nil only with m.stopped closed and the context error only
\* with its context done; a Stop waiting with its context done returns that
\* error, leaving the node Stopping and the loops as they are.
C9_StopResult ==
    /\ []((Returned("Stop") /\ result = Nil) => stopped = "closed")
    /\ []((Returned("Stop") /\ result = ErrCtx)
            => stopCtx.done /\ NodeState = "Stopping" /\ Loops = atCall.loops)
    /\ []((Returned("Stop") /\ ~panicked) => result \in {Nil, ErrCtx})
    /\ ((pc = "stopSelect" /\ stopCtx.done)
          ~> (Returned("Stop") /\ result = ErrCtx))

C9_Witness ==
    /\ Returned("Stop") /\ result = ErrCtx
    /\ stopped = "open" /\ NodeState = "Stopping"
    /\ \E g \in 1..Len(fill) : fill[g].pc = "wait"

\* C10: after Stop closed m.stop on a running node, every fillData loop
\* eventually exits and the node becomes Stopped (unless the process has
\* ended in a panic, which ends every goroutine).
C10_LoopsEventuallyExit ==
    [](stop = "closed"
         => <>(\/ panicked
               \/ /\ \A g \in 1..Len(fill) : FillExited(g)
                  /\ NodeState = "Stopped"))

Buffered(i) == tickers[i].buf
RECURSIVE SumBuffered(_)
SumBuffered(n) == IF n = 0 THEN 0 ELSE Buffered(n) + SumBuffered(n - 1)
TicksHandled == calls["tick"] - SumBuffered(Len(tickers))
InHand == Cardinality({g \in 1..Len(fill) : fill[g].pc \in {"check", "decide", "pledge"}})

\* C11: a handled tick leads to PledgeSector exactly when the sector builder
\* reported free workers and not busy, whatever the number of free workers;
\* each such tick pledges once, and the pledges never exceed the ticks handled.
C11_OnePledgePerTick ==
    /\ [][\A g \in 1..Len(fill) :
            (fill[g].pc = "decide" /\ fill'[g] # fill[g])
              => /\ fill'[g].pc = IF fill[g].sig.free > 0 /\ ~fill[g].sig.busy
                                    THEN "pledge" ELSE "wait"
                 /\ calls'["PledgeSector"] = calls["PledgeSector"]]_vars
    /\ [][calls'["PledgeSector"] # calls["PledgeSector"]
            => /\ calls'["PledgeSector"] = calls["PledgeSector"] + 1
               /\ \E g \in 1..Len(fill) :
                     fill[g].pc = "pledge" /\ fill'[g].pc = "wait"]_vars
    /\ [](calls["PledgeSector"] + InHand <= TicksHandled)

C11_Witness ==
    /\ calls["PledgeSector"] = 1 /\ TicksHandled = 2
    /\ \E g \in 1..Len(fill) :
          fill[g].pc = "decide" /\ fill[g].sig.free = 2 /\ ~fill[g].sig.busy

\* Stop stopped the only ticker before it delivered a tick
StoppedBeforeFirstTick ==
    /\ calls["Stop"] > 0 /\ calls["tick"] = 0
    /\ Len(tickers) = 1 /\ ~tickers[1].live

\* C12: when Stop comes after a successful Run and before the first tick, no
\* PledgeSector call is made and the node ends Stopped (unless the process
\* has ended in a panic).
C12_StopBeforeFirstTick ==
    /\ [](StoppedBeforeFirstTick => calls["PledgeSector"] = 0)
    /\ (StoppedBeforeFirstTick ~> (panicked \/ NodeState = "Stopped"))

\* C13: whenever Stop waits in its select, and when it has returned, it has
\* stopped the ticker in m.dataTiker and closed m.stop, also when its context
\* was already done at the call.
C13_SignalBeforeWait ==
    (pc = "stopSelect" \/ Returned("Stop"))
      => /\ stop = "closed"
         /\ dataTiker # NoTicker
         /\ ~tickers[dataTiker].live

C13_Witness ==
    /\ pc = "stopSelect" /\ stopCtx.kind = "cancelled" /\ stopCtx.done
    /\ stop = "closed" /\ ~tickers[dataTiker].live

\* C17: once a Run has succeeded, m.maddr and m.worker never change.
C17_IdentityImmutable ==
    [][Len(fps) > 0 => (maddr' = maddr /\ worker' = worker)]_vars

\* C18: between calls, m.worker is unset or an address the wallet holds a key
\* for; a first Run that fails at the wallet leaves m.worker unset.
C18_WorkerConfirmed ==
    /\ pc = "idle" => (worker = Undef \/ worker \in wallet)
    /\ (Returned("Run") /\ made["WalletHas"] = 1 /\ result # Nil
          /\ atCall.worker = Undef)
         => worker = Undef

\* C19: a Stop that returns has called m.sealing.Stop once, with its own
\* context, as its last step: not while it stops the ticker, closes m.stop or
\* waits, and only with the ticker stopped and m.stop closed.
C19_SealingStopAfterWait ==
    /\ [](Returned("Stop") => (made["sealingStop"] = 1 /\ sealingCtx = stopCtx.kind))
    /\ []((pc \in {"stopTicker", "stopClose", "stopSelect"} /\ ~panicked)
            => made["sealingStop"] = 0)
    /\ [][(made'["sealingStop"] > made["sealingStop"] /\ ~panicked')
            => /\ pc = "stopSelect" /\ pc' = "idle"
               /\ stop = "closed" /\ ~tickers[dataTiker].live]_vars

C19_Witness ==
    /\ Returned("Stop") /\ result = ErrCtx
    /\ made["sealingStop"] = 1 /\ sealingCtx = "cancellable"

Called(op) == epp.op = op

\* C14: with the insecure flag set, ComputeProof returns the bytes of
\* "valid proof" and no error, and makes no call to the sector builder.
C14_InsecureSentinel ==
    (Called("ComputeProof") /\ epp.insecure)
      => /\ epp.ret = [val |-> SentinelProof, err |-> Nil]
         /\ epp.sb = <<>>

C14_Witness ==
    /\ Called("ComputeProof") /\ epp.insecure
    /\ epp.arg.rand = <<>> /\ epp.arg.winners = <<>> /\ epp.arg.ssi = <<>>
    /\ epp.ret.val = SentinelProof

\* C15: with the flag clear, ComputeProof calls ComputeElectionPoSt once with
\* its own arguments, and returns that call's proof as it is, or on an error
\* the error and no proof.
C15_ProofForwarded ==
    (Called("ComputeProof") /\ ~epp.insecure)
      => /\ epp.sb = <<[op |-> "ComputeElectionPoSt", ssi |-> epp.arg.ssi,
                        rand |-> epp.arg.rand, winners |-> epp.arg.winners]>>
         /\ epp.ans.err = Nil => epp.ret = [val |-> epp.ans.val, err |-> Nil]
         /\ epp.ans.err # Nil => epp.ret = [val |-> <<>>, err |-> epp.ans.err]

C15_Witness ==
    /\ Called("ComputeProof") /\ ~epp.insecure
    /\ Len(epp.arg.rand) = RandWidth + 1 /\ epp.arg.winners = <<"c1", "c2">>
    /\ epp.ans = [val |-> <<7, 9>>, err |-> Nil] /\ epp.ret.val = <<7, 9>>

\* C16: GenerateCandidates calls GenerateEPostCandidates once, with no faults,
\* and returns its candidates and no error, or its error and no candidates.
C16_CandidatesOrError ==
    Called("GenerateCandidates")
      => /\ Len(epp.sb) = 1
         /\ epp.sb[1].op = "GenerateEPostCandidates"
         /\ epp.sb[1].ssi = epp.arg.ssi
         /\ epp.sb[1].faults = <<>>
         /\ epp.ans.err = Nil => epp.ret = [val |-> epp.ans.val, err |-> Nil]
         /\ epp.ans.err # Nil => epp.ret = [val |-> <<>>, err |-> epp.ans.err]

C16_Witness ==
    /\ Called("GenerateCandidates")
    /\ epp.ans = [val |-> <<"c1">>, err |-> ErrSb]
    /\ epp.ret = [val |-> <<>>, err |-> ErrSb]

\* C20: the randomness handed to GenerateEPostCandidates has 32 bytes: the
\* caller's first min(n, 32) bytes in order, then zeros; a longer input is cut
\* and no length makes the call fail.
C20_RandomnessWidth ==
    Called("GenerateCandidates")
      => LET given == epp.arg.rand
             passed == epp.sb[1].rand
         IN  /\ Len(passed) = RandWidth
             /\ \A i \in 1..RandWidth :
                   passed[i] = IF i <= Len(given) THEN given[i] ELSE 0
             /\ epp.ret.err # Nil => epp.ans.err # Nil

C20_Witness ==
    /\ Called("GenerateCandidates")
    /\ Len(epp.arg.rand) > RandWidth
    /\ epp.sb[1].rand = SubSeq(epp.arg.rand, 1, RandWidth)
    /\ epp.ret.err = Nil

====
